---- MODULE Spec2Model ----
(***************************************************************************)
(* State machine of reporting/utils/benchmarks.py: the Benchmarks class    *)
(* (its catalog _benchmarks, the attribute _metrics_fetched, the loop of   *)
(* fetch_metrics_ and the lookup get_benchmarks) against a CloudWatch      *)
(* client whose answers are fixed per behaviour and whose calls may fail.  *)
(*                                                                         *)
(* Python values are tagged: None, Str(s) for a str, Num(n) for a float    *)
(* held in hundredths.  A dict is a function on its keys, a list a         *)
(* sequence.  A datapoint's Average is held in thousandths.                *)
(***************************************************************************)
EXTENDS Integers, Sequences, FiniteSets, TLC

VARIABLES
    config,           \* yaml.load(...)['benchmarks']: the list of entries
    cw,               \* what the CloudWatch backend answers, per metric name
    benchmarks,       \* self._benchmarks
    metrics_fetched,  \* self._metrics_fetched: {} while the attribute is unset
    pc,               \* position: "new", "idle", "for_entry", "for_header", "raised"
    caller,           \* who runs fetch_metrics_: "__init__", "fetch_metrics_", "get_benchmarks"
    arg,              \* the type argument of the pending get_benchmarks
    i,                \* index into config of the entry in progress
    j,                \* index into [*META_INFO_HEADERS, *headers]
    benchmark,        \* local dict benchmark of the entry in progress
    alarms,           \* local dict alarms of the entry in progress
    calls,            \* backend calls issued by the current or last fetch_metrics_
    result,           \* outcome of the last call on the object
    before,           \* catalog and marker when the current or last fetch_metrics_ began
    origin,           \* per catalog pair, the config index of the entry it was built from
    nfetch            \* number of fetch_metrics_ runs started

vars == <<config, cw, benchmarks, metrics_fetched, pc, caller, arg, i, j,
          benchmark, alarms, calls, result, before, origin, nfetch>>

----------------------------------------------------------------------------
(* Bounds *)

MaxEntries == 2
MaxFetches == 2
MaxPages == 2

----------------------------------------------------------------------------
(* Python values and dicts *)

None == <<"None">>
Str(s) == <<"str", s>>
Num(n) == <<"float", n>>

EmptyDict == <<>>
DictSet(d, k, v) == (k :> v) @@ d
Range(s) == {s[n] : n \in DOMAIN s}

----------------------------------------------------------------------------
(* Class attributes *)

HEADERS ==
    "Training CV" :> <<"Framework", "Framework Desc", "Model", "Precision", "Benchmark Desc",
                       "Instance Type", "Top 1 Val Acc", "Top 1 Train Acc", "Throughput",
                       "Time to Train", "CPU Memory", "GPU Memory Mean", "GPU Memory Max",
                       "Uptime">>

HEADER_UNITS ==
    "Latency" :> "ms" @@ "P50 Latency" :> "ms" @@ "P90 Latency" :> "ms" @@
    "P99 Latency" :> "ms" @@ "Throughput" :> "/s" @@ "Error Rate" :> "%" @@
    "CPU Memory" :> "mb" @@ "GPU Memory" :> "mb" @@ "GPU Memory Max" :> "mb" @@
    "GPU Memory Mean" :> "mb" @@ "Time to Train" :> "s" @@ "Uptime" :> "s"

DEFAULT_METRIC_KEYS ==
    "Throughput" :> "throughput" @@ "CPU Memory" :> "cpu_memory_usage" @@
    "GPU Memory Max" :> "gpu_memory_usage_max" @@
    "GPU Memory Mean" :> "gpu_memory_usage_mean" @@
    "Time to Train" :> "time_to_train" @@ "Uptime" :> "uptime_in_seconds"

CATEGORICAL_HEADERS ==
    <<"Metric Prefix", "Metric Suffix", "Test", "Framework", "Framework Desc",
      "Model", "Benchmark Desc", "Instance Type", "Num Instances", "Precision">>

META_INFO_HEADERS == <<"Type", "DashboardUri">>

----------------------------------------------------------------------------
(* The backend.  cw.Datapoints and cw.MetricAlarms answer for the metric   *)
(* names the backend knows; any other name has no datapoints, no alarms.   *)
(* cw.Metrics is the list of pages list_metrics serves for the namespace.  *)

Datapoints(metric) ==
    IF metric \in DOMAIN cw.Datapoints THEN cw.Datapoints[metric] ELSE <<>>

MetricAlarms(metric) ==
    IF metric \in DOMAIN cw.MetricAlarms THEN cw.MetricAlarms[metric] ELSE <<>>

----------------------------------------------------------------------------
(* Pure helpers *)

\* 2^e modulo 1000
RECURSIVE pow2mod1000(_)
pow2mod1000(e) ==
    IF e = 0 THEN 1 ELSE (2 * pow2mod1000(e - 1)) % 1000

\* the exponent of the binade of num/den: the L with 2^L <= num/den < 2^(L+1),
\* for num, den > 0
RECURSIVE floor_log2(_, _)
floor_log2(num, den) ==
    IF num >= 2 * den THEN floor_log2(num, 2 * den) + 1
    ELSE IF num < den THEN floor_log2(2 * num, den) - 1
    ELSE 0

\* The float that holds value thousandths (value > 0) is m / 2^e, m the
\* integer of 53 bits nearest to value * 2^e / 1000.  This is the sign of its
\* distance from value / 1000, read off the remainder of value * 2^e by 1000:
\* below one half m was rounded down and the float lies below, above one half
\* it lies above, 0 when the float is exact.  (The remainder is never exactly
\* one half: e is 3 or more for every value below 2^49 thousand.)
float_error(value) ==
    LET e == 52 - floor_log2(value, 1000)
        rem == ((value % 1000) * pow2mod1000(e)) % 1000
    IN  IF rem = 0 THEN 0 ELSE IF rem < 500 THEN -1 ELSE 1

\* round(value, 2) of a non-negative float held in thousandths, giving
\* hundredths.  Python rounds the binary float correctly: a last digit of 5
\* is a tie only when the float holds it exactly (x.125, x.375, ...), and is
\* then rounded half to even; otherwise the float lies below or above the
\* tie and is rounded down or up (2.675 gives 2.67, 0.005 gives 0.01).
round2(value) ==
    LET q == value \div 10
        r == value % 10
    IN  IF r < 5 THEN q
        ELSE IF r > 5 THEN q + 1
        ELSE IF float_error(value) < 0 THEN q
        ELSE IF float_error(value) > 0 THEN q + 1
        ELSE IF q % 2 = 0 THEN q ELSE q + 1

\* "{}.{}.{}".format(metric_prefix, v, metric_suffix), v[2] the str of v
format_metric(metric_prefix, v, metric_suffix) ==
    metric_prefix[2] \o "." \o v[2] \o "." \o metric_suffix[2]

\* _get_metric returning None, not '', for a metric without datapoints
get_metric_value_none(points) ==
    IF points # <<>>
    THEN Num(round2(points[1].Average))
    ELSE None

\* _get_metric taking points[-1] for points[0]
get_metric_value_last(points) ==
    IF points # <<>>
    THEN Num(round2(points[Len(points)].Average))
    ELSE Str("")

\* _get_metric, given the Datapoints the backend returned
get_metric_value(points) ==
    IF points # <<>>
    THEN Num(round2(points[1].Average))
    ELSE Str("")

\* ALARM_URI.format(x['AlarmName'])
ALARM_URI(name) ==
    "https://console.aws.amazon.com/cloudwatch/home?region=us-east-1#alarm:'alarmFilter=ANY;name="
        \o name

\* line 202 keeping every alarm that is not in state OK
IsFiring_not_ok(x) == x.StateValue # "OK"

IsFiring(x) == x.StateValue = "ALARM"

\* _get_alarm_uris, given the MetricAlarms the backend returned
get_alarm_uris(metricAlarms) ==
    LET firing == SelectSeq(metricAlarms, IsFiring)
    IN  [n \in DOMAIN firing |-> ALARM_URI(firing[n].AlarmName)]

\* line 166 with brackets for the parentheses of the format
append_header_unit_brackets(header) ==
    IF header \in DOMAIN HEADER_UNITS
    THEN header \o " [" \o HEADER_UNITS[header] \o "]"
    ELSE header

append_header_unit(header) ==
    IF header \in DOMAIN HEADER_UNITS
    THEN header \o " (" \o HEADER_UNITS[header] \o ")"
    ELSE header

\* lines 90-93 taking an explicit null for a missing key
find_value_null_as_missing(k, benchmark_keys) ==
    IF k \in DOMAIN benchmark_keys /\ benchmark_keys[k] # None THEN benchmark_keys[k]
    ELSE IF k \in DOMAIN DEFAULT_METRIC_KEYS THEN Str(DEFAULT_METRIC_KEYS[k])
    ELSE None

\* lines 90-93 with the two tests swapped: the default key wins
find_value_default_first(k, benchmark_keys) ==
    IF k \in DOMAIN DEFAULT_METRIC_KEYS THEN Str(DEFAULT_METRIC_KEYS[k])
    ELSE IF k \in DOMAIN benchmark_keys THEN benchmark_keys[k]
    ELSE None

\* line 221 reading the first page only, as a list_metrics call without the
\* paginator does
build_full_result_first_page(pages) == IF pages = <<>> THEN <<>> ELSE pages[1]

\* line 221: metrics_paginator.build_full_result()['Metrics'], the pages'
\* Metrics joined in page order
RECURSIVE build_full_result(_)
build_full_result(pages) ==
    IF pages = <<>> THEN <<>> ELSE Head(pages) \o build_full_result(Tail(pages))

\* lines 219-222
list_all_metrics(pages) ==
    LET metrics == build_full_result(pages)
    IN  [n \in DOMAIN metrics |-> metrics[n].MetricName]

\* lines 89-93: the value found for header k, None when there is none
find_value(k, benchmark_keys) ==
    IF k \in DOMAIN benchmark_keys THEN benchmark_keys[k]
    ELSE IF k \in DOMAIN DEFAULT_METRIC_KEYS THEN Str(DEFAULT_METRIC_KEYS[k])
    ELSE None

\* line 97 without its test of META_INFO_HEADERS
is_literal_categorical(k) == k \in Range(CATEGORICAL_HEADERS)

\* line 97: is header k stored literally
is_literal(k) ==
    k \in Range(CATEGORICAL_HEADERS) \/ k \in Range(META_INFO_HEADERS)

\* line 87: the headers the inner loop visits, in order
loop_headers(headers) == META_INFO_HEADERS \o headers

\* lines 111-113 left out
fill_blanks_skipped(bm, headers) == bm

\* lines 111-113: fill in any missing headers with blank values
fill_blanks(bm, headers) ==
    [h \in DOMAIN bm \cup Range(headers) |-> IF h \in DOMAIN bm THEN bm[h] ELSE Str("")]

\* line 147 with != for ==
filter_type_negated(type, bms) ==
    LET HasOtherType(x) == x[1]["Type"] # Str(type)
    IN  SelectSeq(bms, HasOtherType)

\* line 147: filter(lambda x: x[0]['Type'] == type, self._benchmarks)
filter_type(type, bms) ==
    LET HasType(x) == x[1]["Type"] = Str(type)
    IN  SelectSeq(bms, HasType)

\* line 101: the call self._get_metric(metric) makes for header k of entry e
statistics_call(e, k, metric) ==
    [api |-> "get_metric_statistics", entry |-> e, header |-> k, metric |-> metric]

\* line 102 passing the header k for the metric name
alarms_call_header(e, k, metric) ==
    [api |-> "describe_alarms_for_metric", entry |-> e, header |-> k, metric |-> k]

\* line 102: the call self._get_alarm_uris(metric) makes for header k of entry e
alarms_call(e, k, metric) ==
    [api |-> "describe_alarms_for_metric", entry |-> e, header |-> k, metric |-> metric]

\* line 115 with insert(0, ...) for append
append_pair_front(bms, pair) == <<pair>> \o bms

\* line 115: self._benchmarks.append((benchmark, alarms))
append_pair(bms, pair) == Append(bms, pair)

\* line 143 fetching on every call
needs_fetch_always(fetched) == TRUE

\* line 143: not self._metrics_fetched, for an attribute that is set
needs_fetch(fetched) == \E b \in fetched : ~b

\* lines 146-147 with HEADERS.get(type, []) for HEADERS[type]
lookup_lenient(type, bms) ==
    [status |-> "ok",
     value |-> <<filter_type(type, bms),
                 IF type \in DOMAIN HEADERS THEN HEADERS[type] ELSE <<>> >>]

\* lines 146-147: the outcome of the lookup over catalog bms
lookup(type, bms) ==
    IF type \in DOMAIN HEADERS
    THEN [status |-> "ok", value |-> <<filter_type(type, bms), HEADERS[type]>>]
    ELSE [status |-> "KeyError", value |-> <<>>]

\* lines 82-84: do benchmark_keys['Metric Prefix'], ['Metric Suffix'] and
\* HEADERS[benchmark_keys['Type']] all succeed
entry_keys_ok(benchmark_keys) ==
    /\ {"Metric Prefix", "Metric Suffix", "Type"} \subseteq DOMAIN benchmark_keys
    /\ benchmark_keys["Type"][1] = "str"
    /\ benchmark_keys["Type"][2] \in DOMAIN HEADERS

\* line 105: benchmark_type not in self.HEADERS
type_invalid(benchmark_type) ==
    ~(benchmark_type[1] = "str" /\ benchmark_type[2] \in DOMAIN HEADERS)

----------------------------------------------------------------------------
(* Inputs: configuration entries and backend answers *)

KnownType == "Training CV"
UnknownType == "Inference NLP"
QueryTypes == {KnownType, UnknownType}

\* explicit literals, an explicit key for a header without a default key
EntryFull ==
    "Type" :> Str(KnownType) @@ "Metric Prefix" :> Str("mx") @@ "Metric Suffix" :> Str("p3") @@
    "DashboardUri" :> Str("http://dash/mx") @@ "Framework" :> Str("MXNet") @@
    "Model" :> Str("resnet50") @@ "Top 1 Val Acc" :> Str("val_acc")

\* nothing but the required keys: every measurable header takes its default key
EntryMinimal ==
    "Type" :> Str(KnownType) @@ "Metric Prefix" :> Str("tf") @@ "Metric Suffix" :> Str("p3")

\* explicit nulls (meta-info, literal, measurable with a default key) and an
\* explicit key that overrides a default key
EntryNulls ==
    "Type" :> Str(KnownType) @@ "Metric Prefix" :> Str("mx") @@ "Metric Suffix" :> Str("p3") @@
    "DashboardUri" :> None @@ "Model" :> None @@ "Throughput" :> None @@
    "Uptime" :> Str("up")

\* a Type that is no key of HEADERS
EntryUnknown ==
    "Type" :> Str(UnknownType) @@ "Metric Prefix" :> Str("mx") @@ "Metric Suffix" :> Str("p3") @@
    "Model" :> Str("bert")

Entries == {EntryFull, EntryMinimal, EntryNulls, EntryUnknown}

Configs == UNION {[1..n -> Entries] : n \in 0..MaxEntries}

PointLists ==
    { <<>>,
      <<[Average |-> 2675]>>,
      <<[Average |-> 1236], [Average |-> 9000]>> }

AlarmLists ==
    { <<>>,
      <<[AlarmName |-> "a2", StateValue |-> "OK"],
        [AlarmName |-> "a3", StateValue |-> "ALARM"],
        [AlarmName |-> "a4", StateValue |-> "INSUFFICIENT_DATA"],
        [AlarmName |-> "a1", StateValue |-> "ALARM"]>> }

\* the metrics whose answers vary between backends
VariedMetrics == {"mx.throughput.p3", "mx.up.p3"}

Backend(points, metricAlarms) ==
    [ Datapoints |->
          [m \in VariedMetrics |-> points] @@
          "mx.cpu_memory_usage.p3" :> <<[Average |-> 2375]>> @@
          "mx.val_acc.p3" :> <<[Average |-> 7654]>>,
      MetricAlarms |->
          [m \in VariedMetrics |-> metricAlarms] @@
          "mx.val_acc.p3" :> <<[AlarmName |-> "acc_low", StateValue |-> "OK"]>>,
      Metrics |-> <<>> ]

Backends == {Backend(p, a) : p \in PointLists, a \in AlarmLists}

\* an element of the Metrics of a list_metrics page
Metric(name) == [Namespace |-> "benchmarkai-metrics-prod", MetricName |-> name]

Pages ==
    { <<>>,
      <<Metric("m1")>>,
      <<Metric("m2"), Metric("m1")>>,
      <<Metric("m1"), Metric("m3")>> }

\* the paginator yields at least one page
PageLists == UNION {[1..n -> Pages] : n \in 1..MaxPages}

PagedBackends ==
    {[Backend(<<[Average |-> 2675]>>, <<>>) EXCEPT !.Metrics = pages] : pages \in PageLists}

\* the arguments given to append_header_unit
HeaderInputs ==
    DOMAIN HEADER_UNITS \cup Range(HEADERS[KnownType]) \cup Range(META_INFO_HEADERS)
        \cup {"No Such Header"}

----------------------------------------------------------------------------
(* State machine *)

NoResult == [op |-> "none", type |-> "", status |-> "none", value |-> <<>>]

\* the object between line 72 and line 75
InitObject ==
    /\ benchmarks = <<>>
    /\ metrics_fetched = {}
    /\ pc = "new"
    /\ caller = "none"
    /\ arg = ""
    /\ i = 0
    /\ j = 0
    /\ benchmark = EmptyDict
    /\ alarms = EmptyDict
    /\ calls = {}
    /\ result = NoResult
    /\ before = [benchmarks |-> <<>>, metrics_fetched |-> {}]
    /\ origin = <<>>
    /\ nfetch = 0

Init ==
    /\ config \in Configs
    /\ cw \in Backends
    /\ InitObject

\* entering fetch_metrics_ (line 80) on behalf of c
StartFetch(c, type) ==
    /\ pc' = "for_entry"
    /\ caller' = c
    /\ arg' = type
    /\ i' = 1
    /\ j' = 0
    /\ benchmark' = EmptyDict
    /\ alarms' = EmptyDict
    /\ calls' = {}
    /\ result' = NoResult
    /\ before' = [benchmarks |-> benchmarks, metrics_fetched |-> metrics_fetched]
    /\ nfetch' = nfetch + 1
    /\ UNCHANGED <<config, cw, benchmarks, metrics_fetched, origin>>

\* an exception leaves fetch_metrics_ and its caller; raised out of __init__
\* it leaves no object behind
Raise(exc) ==
    /\ pc' = IF caller = "__init__" THEN "raised" ELSE "idle"
    /\ result' = [op |-> caller, type |-> arg, status |-> exc, value |-> <<>>]
    /\ i' = 0
    /\ j' = 0
    /\ benchmark' = EmptyDict
    /\ alarms' = EmptyDict
    /\ UNCHANGED <<config, cw, benchmarks, metrics_fetched, caller, arg, before, origin, nfetch>>

\* __init__ (lines 72-76)
Construct ==
    /\ pc = "new"
    /\ \E fetch_metrics \in BOOLEAN :
          IF fetch_metrics
          THEN StartFetch("__init__", "")
          ELSE /\ pc' = "idle"
               /\ result' = [op |-> "__init__", type |-> "", status |-> "ok", value |-> <<>>]
               /\ UNCHANGED <<config, cw, benchmarks, metrics_fetched, caller, arg, i, j,
                              benchmark, alarms, calls, before, origin, nfetch>>

\* an explicit call of fetch_metrics_
Fetch ==
    /\ pc = "idle"
    /\ nfetch < MaxFetches
    /\ StartFetch("fetch_metrics_", "")

\* get_benchmarks(type) (lines 143-147)
GetBenchmarks ==
    /\ pc = "idle"
    /\ \E type \in QueryTypes :
          IF metrics_fetched = {}
          THEN \* line 143 reads an attribute that was never set
               /\ result' = [op |-> "get_benchmarks", type |-> type,
                             status |-> "AttributeError", value |-> <<>>]
               /\ UNCHANGED <<config, cw, benchmarks, metrics_fetched, pc, caller, arg, i, j,
                              benchmark, alarms, calls, before, origin, nfetch>>
          ELSE IF needs_fetch(metrics_fetched)
          THEN /\ nfetch < MaxFetches
               /\ StartFetch("get_benchmarks", type)
          ELSE /\ result' = [op |-> "get_benchmarks", type |-> type] @@ lookup(type, benchmarks)
               /\ UNCHANGED <<config, cw, benchmarks, metrics_fetched, pc, caller, arg, i, j,
                              benchmark, alarms, calls, before, origin, nfetch>>

\* lines 81-86: the next entry of the configuration
EntryBegin ==
    /\ pc = "for_entry"
    /\ i <= Len(config)
    /\ IF entry_keys_ok(config[i])
       THEN /\ pc' = "for_header"
            /\ j' = 1
            /\ benchmark' = EmptyDict
            /\ alarms' = EmptyDict
            /\ UNCHANGED <<config, cw, benchmarks, metrics_fetched, caller, arg, i, calls,
                           result, before, origin, nfetch>>
       ELSE /\ Raise("KeyError")
            /\ UNCHANGED calls

\* lines 87-102: one header of the entry in progress
HeaderStep ==
    /\ pc = "for_header"
    /\ j <= Len(loop_headers(HEADERS[config[i]["Type"][2]]))
    /\ LET benchmark_keys == config[i]
           k == loop_headers(HEADERS[benchmark_keys["Type"][2]])[j]
           v == find_value(k, benchmark_keys)
           metric == format_metric(benchmark_keys["Metric Prefix"], v,
                                   benchmark_keys["Metric Suffix"])
           stat == statistics_call(i, k, metric)
           alarm == alarms_call(i, k, metric)
           Continue(bm, al, cs) ==
               /\ j' = j + 1
               /\ benchmark' = bm
               /\ alarms' = al
               /\ calls' = cs
               /\ UNCHANGED <<config, cw, benchmarks, metrics_fetched, pc, caller, arg, i,
                              result, before, origin, nfetch>>
       IN  IF v = None
           THEN Continue(benchmark, alarms, calls)
           ELSE IF is_literal(k)
           THEN Continue(DictSet(benchmark, k, v), alarms, calls)
           ELSE \E outcome \in {"ok", "statistics fail", "alarms fail"} :
                   IF outcome = "ok"
                   THEN Continue(DictSet(benchmark, k, get_metric_value(Datapoints(stat.metric))),
                                 DictSet(alarms, k, get_alarm_uris(MetricAlarms(alarm.metric))),
                                 calls \cup {stat, alarm})
                   ELSE /\ Raise("BackendError")
                        /\ calls' = IF outcome = "statistics fail"
                                    THEN calls \cup {stat}
                                    ELSE calls \cup {stat, alarm}

\* lines 104-117: validate the type, fill the blanks, append, mark as fetched
EntryEnd ==
    /\ pc = "for_header"
    /\ j > Len(loop_headers(HEADERS[config[i]["Type"][2]]))
    /\ pc' = "for_entry"
    /\ i' = i + 1
    /\ j' = 0
    /\ benchmark' = EmptyDict
    /\ alarms' = EmptyDict
    /\ IF type_invalid(config[i]["Type"])
       THEN UNCHANGED <<benchmarks, metrics_fetched, origin>>
       ELSE /\ benchmarks' = append_pair(benchmarks,
                                         <<fill_blanks(benchmark, HEADERS[config[i]["Type"][2]]),
                                           alarms>>)
            /\ origin' = Append(origin, i)
            /\ metrics_fetched' = {TRUE}
    /\ UNCHANGED <<config, cw, caller, arg, calls, result, before, nfetch>>

\* the loop of line 81 is exhausted: fetch_metrics_ returns to its caller
FetchReturn ==
    /\ pc = "for_entry"
    /\ i > Len(config)
    /\ pc' = "idle"
    /\ i' = 0
    /\ result' = IF caller = "get_benchmarks"
                 THEN [op |-> caller, type |-> arg] @@ lookup(arg, benchmarks)
                 ELSE [op |-> caller, type |-> "", status |-> "ok", value |-> <<>>]
    /\ UNCHANGED <<config, cw, benchmarks, metrics_fetched, caller, arg, j, benchmark, alarms,
                   calls, before, origin, nfetch>>

\* list_all_metrics (lines 209-222); a failing page request raises
ListAllMetrics ==
    /\ pc = "idle"
    /\ \E outcome \in {"ok", "list_metrics fails"} :
          result' = IF outcome = "ok"
                    THEN [op |-> "list_all_metrics", type |-> "", status |-> "ok",
                          value |-> list_all_metrics(cw.Metrics)]
                    ELSE [op |-> "list_all_metrics", type |-> "", status |-> "BackendError",
                          value |-> <<>>]
    /\ UNCHANGED <<config, cw, benchmarks, metrics_fetched, pc, caller, arg, i, j,
                   benchmark, alarms, calls, before, origin, nfetch>>

\* Benchmarks.append_header_unit(header) (lines 150-168); result.type holds
\* the argument
AppendHeaderUnit ==
    /\ pc = "idle"
    /\ \E header \in HeaderInputs :
          result' = [op |-> "append_header_unit", type |-> header, status |-> "ok",
                     value |-> append_header_unit(header)]
    /\ UNCHANGED <<config, cw, benchmarks, metrics_fetched, pc, caller, arg, i, j,
                   benchmark, alarms, calls, before, origin, nfetch>>

Next ==
    \/ Construct
    \/ Fetch
    \/ GetBenchmarks
    \/ EntryBegin
    \/ HeaderStep
    \/ EntryEnd
    \/ FetchReturn

Spec == Init /\ [][Next]_vars

\* The two helpers beside the catalog's operations, over one configuration
\* and the backends that differ in the pages they serve.
InitHelpers ==
    /\ config = <<EntryFull>>
    /\ cw \in PagedBackends
    /\ InitObject

NextHelpers ==
    \/ Next
    \/ ListAllMetrics
    \/ AppendHeaderUnit

SpecHelpers == InitHelpers /\ [][NextHelpers]_vars

----------------------------------------------------------------------------
(* Vocabulary of the properties *)

\* the object exists and no call on it is in progress
Idle == pc = "idle"

\* a run of fetch_metrics_ (eager or explicit) has just ended, in result
FetchEnded ==
    /\ pc \in {"idle", "raised"}
    /\ nfetch >= 1
    /\ result.op \in {"__init__", "fetch_metrics_"}

\* the entries of the configuration whose Type is a key of HEADERS
ValidEntries == {n \in DOMAIN config : config[n]["Type"][2] \in DOMAIN HEADERS}

LiteralHeaders == Range(CATEGORICAL_HEADERS) \cup Range(META_INFO_HEADERS)

\* the pairs the current or last fetch_metrics_ appended
Appended == {n \in DOMAIN benchmarks : n > Len(before.benchmarks)}

----------------------------------------------------------------------------
(* C1 *)

\* the configuration holds one entry of an unknown type and one valid entry
OneUnknownOneValid ==
    /\ Len(config) = 2
    /\ Cardinality(ValidEntries) = 1

\* C1: for a configuration with one unknown-type entry and one valid entry,
\* in either order, a fetch_metrics_ in which no backend call fails
\* completes without raising and has appended exactly one record, the one
\* of the valid entry.
C1_UnknownTypeSkipped ==
    (OneUnknownOneValid /\ FetchEnded /\ result.status # "BackendError")
        => /\ result.status = "ok"
           /\ Cardinality(Appended) = 1
           /\ \A n \in Appended : origin[n] \in ValidEntries

----------------------------------------------------------------------------
(* C2 *)

\* C2: a get_benchmarks(type) for a known type that has returned or raised
\* was preceded by a fetch_metrics_ (its own, when none ran before) and did
\* not fail on the never-fetched state.
C2_LazyFetchOnFirstQuery ==
    (Idle /\ result.op = "get_benchmarks" /\ result.type \in DOMAIN HEADERS)
        => /\ nfetch >= 1
           /\ result.status # "AttributeError"

----------------------------------------------------------------------------
(* C3 *)

\* C3: when a backend call fails during fetch_metrics_, the catalog and the
\* fetched marker are what they were when that fetch_metrics_ began.
C3_NoPartialCommit ==
    (Idle /\ result.status = "BackendError")
        => /\ benchmarks = before.benchmarks
           /\ metrics_fetched = before.metrics_fetched

----------------------------------------------------------------------------
(* C4 *)

\* C4: whenever fetch_metrics_ completes without error the catalog is marked
\* as fetched, whatever the configuration, the empty one included.
C4_FetchedAfterFetch ==
    (Idle /\ FetchEnded /\ result.status = "ok") => metrics_fetched = {TRUE}

----------------------------------------------------------------------------
(* C5 *)

\* C5: once a fetch_metrics_ has run, a step from the idle object that is
\* not an explicit fetch_metrics_ (that is, a get_benchmarks) ends idle,
\* issues no backend call and leaves the catalog and its marker unchanged;
\* a get_benchmarks right after a get_benchmarks of the same type gives the
\* same result; and the catalog changes only inside a fetch_metrics_ that
\* get_benchmarks did not start.
C5_QueryReadOnly ==
    [][ /\ (Idle /\ nfetch >= 1 /\ ~(pc' = "for_entry" /\ caller' = "fetch_metrics_"))
            => /\ pc' = "idle"
               /\ benchmarks' = benchmarks
               /\ metrics_fetched' = metrics_fetched
               /\ calls' = calls
               /\ (result.op = "get_benchmarks" /\ result'.type = result.type)
                      => result' = result
        /\ (benchmarks' # benchmarks)
            => (pc = "for_header" /\ caller \in {"__init__", "fetch_metrics_"})
      ]_vars

\* a get_benchmarks has returned records of a fetched, populated catalog
C5_Witness ==
    /\ Idle
    /\ metrics_fetched = {TRUE}
    /\ result.op = "get_benchmarks"
    /\ result.status = "ok"
    /\ Len(result.value[1]) >= 1
    /\ calls # {}

----------------------------------------------------------------------------
(* C6 *)

\* C6: a get_benchmarks(type) for a type that is no key of HEADERS ends in
\* an error, whatever the catalog holds; it never returns.
C6_UnknownTypeFails ==
    (Idle /\ result.op = "get_benchmarks" /\ result.type \notin DOMAIN HEADERS)
        => result.status \in {"AttributeError", "KeyError"}

\* get_benchmarks of an unknown type has raised on a populated catalog
C6_Witness ==
    /\ Idle
    /\ result.op = "get_benchmarks"
    /\ result.type = UnknownType
    /\ result.status = "KeyError"
    /\ Len(benchmarks) >= 1

----------------------------------------------------------------------------
(* C7 *)

\* the headers of the schema of record rec's type
SchemaHeaders(rec) == Range(HEADERS[rec["Type"][2]])

\* C7 as claimed: every record of the catalog has an entry for each header
\* of its type's schema and a Type entry, and its keys are exactly the
\* meta-info headers present in its configuration entry and the schema's
\* headers.
C7_KeysPresentMeta ==
    \A n \in DOMAIN benchmarks :
        LET rec == benchmarks[n][1]
            e == config[origin[n]]
        IN  /\ "Type" \in DOMAIN rec
            /\ SchemaHeaders(rec) \subseteq DOMAIN rec
            /\ DOMAIN rec = (Range(META_INFO_HEADERS) \cap DOMAIN e) \cup SchemaHeaders(rec)

\* C7 amended: the same, with the meta-info headers that have a non-null
\* value in the configuration entry; a schema header without data holds ''.
C7_KeysNonNullMeta ==
    \A n \in DOMAIN benchmarks :
        LET rec == benchmarks[n][1]
            e == config[origin[n]]
        IN  /\ "Type" \in DOMAIN rec
            /\ rec["Type"] = e["Type"]
            /\ SchemaHeaders(rec) \subseteq DOMAIN rec
            /\ DOMAIN rec = {k \in Range(META_INFO_HEADERS) \cap DOMAIN e : e[k] # None}
                                \cup SchemaHeaders(rec)
            /\ \A h \in SchemaHeaders(rec) : rec[h] # None

\* the catalog holds a record with back-filled headers and DashboardUri, and
\* one whose entry gives DashboardUri as null
C7_Witness ==
    \E n, m \in DOMAIN benchmarks :
        /\ "DashboardUri" \in DOMAIN benchmarks[n][1]
        /\ benchmarks[n][1]["Precision"] = Str("")
        /\ "DashboardUri" \in DOMAIN config[origin[m]]
        /\ "DashboardUri" \notin DOMAIN benchmarks[m][1]

----------------------------------------------------------------------------
(* C8 *)

\* the indices of the catalog's pairs whose record has Type type
OfType(type) == {n \in DOMAIN benchmarks : benchmarks[n][1]["Type"] = Str(type)}

\* the m-th smallest element of the set of indices S
Nth(S, m) == CHOOSE n \in S : Cardinality({x \in S : x <= n}) = m

\* C8: a get_benchmarks(type) that returned gives the pairs of the catalog
\* whose record has Type type, all of them and in catalog order, with
\* HEADERS[type].
C8_QueryFilters ==
    (Idle /\ result.op = "get_benchmarks" /\ result.status = "ok")
        => LET got == result.value[1]
           IN  /\ result.type \in DOMAIN HEADERS
               /\ result.value[2] = HEADERS[result.type]
               /\ Len(got) = Cardinality(OfType(result.type))
               /\ \A m \in DOMAIN got :
                      /\ got[m][1]["Type"] = Str(result.type)
                      /\ got[m] = benchmarks[Nth(OfType(result.type), m)]

\* get_benchmarks has returned two distinct pairs
C8_Witness ==
    /\ Idle
    /\ result.op = "get_benchmarks"
    /\ result.status = "ok"
    /\ Len(result.value[1]) >= 2
    /\ result.value[1][1] # result.value[1][2]

----------------------------------------------------------------------------
(* C9 *)

\* C9: no backend call is issued for a categorical or meta-info header, no
\* alarm index has an entry for one, and a record holds, for each such
\* header of its schema or of the meta-info headers, the non-null value the
\* configuration entry gives it.
C9_LiteralsVerbatim ==
    /\ \A c \in calls : c.header \notin LiteralHeaders
    /\ \A n \in DOMAIN benchmarks :
           LET rec == benchmarks[n][1]
               e == config[origin[n]]
           IN  /\ DOMAIN benchmarks[n][2] \cap LiteralHeaders = {}
               /\ \A k \in LiteralHeaders \cap DOMAIN e \cap
                              (Range(META_INFO_HEADERS) \cup SchemaHeaders(rec)) :
                      e[k] # None => (k \in DOMAIN rec /\ rec[k] = e[k])

\* a record with explicit literal values was stored by a fetch_metrics_ that
\* queried the backend
C9_Witness ==
    /\ calls # {}
    /\ \E n \in Appended :
           /\ config[origin[n]] = EntryFull
           /\ benchmarks[n][1]["Model"] = Str("resnet50")
           /\ benchmarks[n][1]["DashboardUri"] = Str("http://dash/mx")

----------------------------------------------------------------------------
(* C10 *)

\* the statistics queries of entry e, in the current or last fetch_metrics_,
\* that the backend answered with zero datapoints
ZeroPointCalls(e) ==
    {c \in calls : /\ c.api = "get_metric_statistics"
                   /\ c.entry = e
                   /\ Datapoints(c.metric) = <<>>}

\* C10 as claimed: a header whose statistics query returned zero datapoints
\* holds '' in the record and an empty list in the alarm index.
C10_ZeroPointsEmptyAlarms ==
    \A n \in Appended :
        \A c \in ZeroPointCalls(origin[n]) :
            /\ benchmarks[n][1][c.header] = Str("")
            /\ c.header \in DOMAIN benchmarks[n][2]
            /\ benchmarks[n][2][c.header] = <<>>

\* C10 amended: a statistics query answered with zero datapoints does not
\* end fetch_metrics_ (unless a backend call fails, the loop goes on to the
\* next header); the header holds '' in the record and has an entry in the
\* alarm index, a list that is empty when no alarm of the metric fires.
C10_ZeroPointsTolerated ==
    /\ [](/\ pc = "for_header"
              => \A c \in ZeroPointCalls(i) :
                     c.header \in DOMAIN benchmark
                         => /\ benchmark[c.header] = Str("")
                            /\ c.header \in DOMAIN alarms
          /\ \A n \in Appended :
                 \A c \in ZeroPointCalls(origin[n]) :
                     /\ benchmarks[n][1][c.header] = Str("")
                     /\ c.header \in DOMAIN benchmarks[n][2]
                     /\ (\A x \in Range(MetricAlarms(c.metric)) : x.StateValue # "ALARM")
                            => benchmarks[n][2][c.header] = <<>>)
    /\ [][ (\E c \in calls' \ calls :
                c.api = "get_metric_statistics" /\ Datapoints(c.metric) = <<>>)
               => \/ result'.status = "BackendError"
                  \/ (pc' = "for_header" /\ j' = j + 1 /\ i' = i)
         ]_vars

\* a fetch_metrics_ completed although a statistics query of its first
\* entry returned zero datapoints: headers after it were resolved and a
\* second record was appended
C10_Witness ==
    /\ Idle
    /\ FetchEnded
    /\ result.status = "ok"
    /\ Cardinality(Appended) = 2
    /\ \E n \in Appended :
           /\ origin[n] = 1
           /\ \E c \in ZeroPointCalls(1) :
                  /\ c.header = "Throughput"
                  /\ benchmarks[n][1]["Throughput"] = Str("")
                  /\ benchmarks[n][2]["Throughput"] # <<>>
                  /\ benchmarks[n][1]["CPU Memory"] # Str("")
                  /\ "Uptime" \in DOMAIN benchmarks[n][2]

----------------------------------------------------------------------------
(* C11 *)

\* the positions of the alarms in state ALARM in the backend's list al
FiringAt(al) == {x \in DOMAIN al : al[x].StateValue = "ALARM"}

\* the alarm queries of entry e in the current or last fetch_metrics_
AlarmCalls(e) == {c \in calls : c.api = "describe_alarms_for_metric" /\ c.entry = e}

\* C11: the URI list stored for a header holds one URI per alarm in state
\* ALARM of the list the backend returned for the header's metric, built
\* from that alarm's name, in the backend's order; alarms in another state
\* give no URI, and the list is empty when no alarm fires.
C11_UrisOfFiringAlarms ==
    \A n \in Appended :
        \A c \in AlarmCalls(origin[n]) :
            LET al == MetricAlarms(c.metric)
                uris == benchmarks[n][2][c.header]
            IN  /\ Len(uris) = Cardinality(FiringAt(al))
                /\ \A m \in DOMAIN uris :
                       uris[m] =
                           "https://console.aws.amazon.com/cloudwatch/home?region=us-east-1#alarm:'alarmFilter=ANY;name="
                               \o al[Nth(FiringAt(al), m)].AlarmName

\* a stored alarm list holds the two firing alarms, in order, of a backend
\* list of four alarms, and another stored list is empty although the
\* backend returned an alarm (in state OK)
C11_Witness ==
    \E n \in Appended :
        \E c, d \in AlarmCalls(origin[n]) :
            /\ Len(MetricAlarms(c.metric)) = 4
            /\ Len(benchmarks[n][2][c.header]) = 2
            /\ benchmarks[n][2][c.header][1] # benchmarks[n][2][c.header][2]
            /\ Len(MetricAlarms(d.metric)) = 1
            /\ benchmarks[n][2][d.header] = <<>>

----------------------------------------------------------------------------
(* C12 *)

\* the statistics queries of entry e in the current or last fetch_metrics_
StatCalls(e) == {c \in calls : c.api = "get_metric_statistics" /\ c.entry = e}

\* the calls of either kind issued for header k of entry e
CallsFor(e, k) == {c \in calls : c.entry = e /\ c.header = k}

\* the dot-joined name of key under the prefix and suffix of entry e
Dotted(e, key) == e["Metric Prefix"][2] \o "." \o key \o "." \o e["Metric Suffix"][2]

\* the headers of rec's schema that are not stored literally
Measurable(rec) == SchemaHeaders(rec) \ LiteralHeaders

\* C12: a statistics query for a header names prefix.explicit_key.suffix
\* when the entry gives the header a key, and prefix.default_key.suffix
\* when it does not and DEFAULT_METRIC_KEYS has one; in a stored record a
\* measurable header with an explicit or a default key was queried, and one
\* with neither was not queried and holds ''.
C12_KeyPriority ==
    /\ \A c \in calls :
           LET e == config[c.entry]
               k == c.header
           IN  IF k \in DOMAIN e
               THEN e[k] # None /\ c.metric = Dotted(e, e[k][2])
               ELSE /\ k \in DOMAIN DEFAULT_METRIC_KEYS
                    /\ c.metric = Dotted(e, DEFAULT_METRIC_KEYS[k])
    /\ \A n \in Appended :
           LET e == config[origin[n]]
               rec == benchmarks[n][1]
           IN  \A k \in Measurable(rec) :
                   /\ (k \in DOMAIN e /\ e[k] # None)
                          => \E c \in StatCalls(origin[n]) : c.header = k
                   /\ (k \notin DOMAIN e /\ k \in DOMAIN DEFAULT_METRIC_KEYS)
                          => \E c \in StatCalls(origin[n]) : c.header = k
                   /\ (k \notin DOMAIN e /\ k \notin DOMAIN DEFAULT_METRIC_KEYS)
                          => /\ CallsFor(origin[n], k) = {}
                             /\ rec[k] = Str("")

\* one stored record shows the three cases: an explicit key that overrides
\* a default key, a default key, and a header with neither
C12_Witness ==
    \E n \in Appended :
        /\ config[origin[n]] = EntryNulls
        /\ \E c \in StatCalls(origin[n]) : c.header = "Uptime" /\ c.metric = "mx.up.p3"
        /\ \E c \in StatCalls(origin[n]) :
               c.header = "CPU Memory" /\ c.metric = "mx.cpu_memory_usage.p3"
        /\ CallsFor(origin[n], "Top 1 Train Acc") = {}
        /\ benchmarks[n][1]["Top 1 Train Acc"] = Str("")

----------------------------------------------------------------------------
(* C13 *)

\* v is a float of two decimals (held in hundredths) nearest to average
\* (held in thousandths)
RoundedFrom(v, average) ==
    /\ v[1] = "float"
    /\ 10 * v[2] - average \in -5..5

\* C13: a header whose statistics query returned more than one datapoint
\* holds the first datapoint's Average rounded to two decimals, both while
\* its entry is in progress and in the stored record.
C13_FirstDatapoint ==
    /\ pc = "for_header"
           => \A c \in StatCalls(i) :
                  (Len(Datapoints(c.metric)) > 1 /\ c.header \in DOMAIN benchmark)
                      => RoundedFrom(benchmark[c.header], Datapoints(c.metric)[1].Average)
    /\ \A n \in Appended :
           \A c \in StatCalls(origin[n]) :
               Len(Datapoints(c.metric)) > 1
                   => RoundedFrom(benchmarks[n][1][c.header], Datapoints(c.metric)[1].Average)

\* a fetch_metrics_ completed with a record holding 1.24 for a header whose
\* metric has the datapoints 1.236 and 9.0
C13_Witness ==
    /\ Idle
    /\ FetchEnded
    /\ result.status = "ok"
    /\ \E n \in Appended :
           \E c \in StatCalls(origin[n]) :
               /\ Len(Datapoints(c.metric)) = 2
               /\ Datapoints(c.metric)[1].Average = 1236
               /\ Datapoints(c.metric)[2].Average = 9000
               /\ benchmarks[n][1][c.header] = Num(124)

----------------------------------------------------------------------------
(* C14 *)

\* the number of metrics on the first p pages
RECURSIVE MetricsUpTo(_, _)
MetricsUpTo(pages, p) == IF p = 0 THEN 0 ELSE MetricsUpTo(pages, p - 1) + Len(pages[p])

\* C14: a list_all_metrics that returned gives, for every page p and every
\* position q on it, the name at (p, q) at the position that follows all
\* names of the earlier pages, and nothing else; one that raised gives
\* nothing.
C14_AllPagesInOrder ==
    (Idle /\ result.op = "list_all_metrics")
        => LET pages == cw.Metrics
           IN  IF result.status = "ok"
               THEN /\ Len(result.value) = MetricsUpTo(pages, Len(pages))
                    /\ \A p \in DOMAIN pages :
                           \A q \in DOMAIN pages[p] :
                               result.value[MetricsUpTo(pages, p - 1) + q]
                                   = pages[p][q].MetricName
               ELSE result.value = <<>>

\* list_all_metrics has returned the names of two non-empty pages that
\* share a name
C14_Witness ==
    /\ Idle
    /\ result.op = "list_all_metrics"
    /\ result.status = "ok"
    /\ Len(cw.Metrics) >= 2
    /\ Len(cw.Metrics[1]) = 2
    /\ Len(cw.Metrics[2]) = 2
    /\ result.value = <<"m2", "m1", "m1", "m3">>

----------------------------------------------------------------------------
(* C15 *)

\* C15: append_header_unit(header) gives 'header (unit)' for a header of
\* HEADER_UNITS and the header itself for any other; the call changes
\* neither the catalog nor its marker and issues no backend call.
C15_HeaderWithUnit ==
    /\ [](result.op = "append_header_unit"
              => LET header == result.type
                 IN  /\ header \in DOMAIN HEADER_UNITS
                            => result.value = header \o " (" \o HEADER_UNITS[header] \o ")"
                     /\ header \notin DOMAIN HEADER_UNITS => result.value = header
                     /\ header = "Throughput" => result.value = "Throughput (/s)"
                     /\ header = "Model" => result.value = "Model")
    /\ [][ result'.op = "append_header_unit"
               => /\ benchmarks' = benchmarks
                  /\ metrics_fetched' = metrics_fetched
                  /\ calls' = calls
                  /\ pc' = pc
         ]_vars

\* append_header_unit('Throughput') has returned on a populated catalog
C15_Witness ==
    /\ Idle
    /\ Len(benchmarks) >= 1
    /\ result.op = "append_header_unit"
    /\ result.type = "Throughput"
    /\ result.value = "Throughput (/s)"

----------------------------------------------------------------------------
(* C16 *)

\* C16: after any number of completed fetch_metrics_ runs over the same
\* configuration and backend the catalog holds exactly one pair per valid
\* entry of the configuration.
C16_OnePairPerEntry ==
    (Idle /\ FetchEnded /\ result.status = "ok")
        => /\ Len(benchmarks) = Cardinality(ValidEntries)
           /\ \A e \in ValidEntries :
                  Cardinality({n \in DOMAIN benchmarks : origin[n] = e}) = 1

----------------------------------------------------------------------------
(* C17 *)

\* C17: every alarm query repeats the entry, header and metric name of a
\* statistics query; the alarm index of a stored pair has an entry for
\* exactly the headers a statistics query was issued for, each of them
\* followed by its alarm query, and none for a categorical or meta-info
\* header or for a header that was back-filled without a query.
C17_AlarmIndexOfQueried ==
    /\ \A a \in calls :
           a.api = "describe_alarms_for_metric"
               => \E c \in StatCalls(a.entry) : c.header = a.header /\ c.metric = a.metric
    /\ \A n \in DOMAIN benchmarks : DOMAIN benchmarks[n][2] \cap LiteralHeaders = {}
    /\ \A n \in Appended :
           /\ DOMAIN benchmarks[n][2] = {c.header : c \in StatCalls(origin[n])}
           /\ \A c \in StatCalls(origin[n]) :
                  \E a \in AlarmCalls(origin[n]) : a.header = c.header /\ a.metric = c.metric
           /\ \A k \in SchemaHeaders(benchmarks[n][1]) :
                  CallsFor(origin[n], k) = {} => k \notin DOMAIN benchmarks[n][2]

\* a stored pair whose alarm index covers a header holding '' after a query
\* without datapoints, and neither a back-filled nor a literal header
C17_Witness ==
    \E n \in Appended :
        /\ config[origin[n]] = EntryFull
        /\ benchmarks[n][1]["Time to Train"] = Str("")
        /\ "Time to Train" \in DOMAIN benchmarks[n][2]
        /\ benchmarks[n][1]["Top 1 Train Acc"] = Str("")
        /\ "Top 1 Train Acc" \notin DOMAIN benchmarks[n][2]
        /\ "Model" \notin DOMAIN benchmarks[n][2]
        /\ "Top 1 Val Acc" \in DOMAIN benchmarks[n][2]

----------------------------------------------------------------------------
(* C18 *)

\* record rec holds the non-null literal values entry e gives to the
\* headers of its schema and to the meta-info headers
BuiltFrom(rec, e) ==
    \A k \in LiteralHeaders \cap DOMAIN e \cap
                 (Range(META_INFO_HEADERS) \cup SchemaHeaders(rec)) :
        e[k] # None => (k \in DOMAIN rec /\ rec[k] = e[k])

\* C18: one fetch_metrics_ appends the records of the configuration's
\* entries in configuration order, one per entry: while it runs the pairs
\* it appended are those of the entries before the one in progress, and
\* when it has completed those of all valid entries, each pair built from
\* its entry and the pairs in the entries' order.
C18_ConfigurationOrder ==
    /\ \A n, m \in Appended : n < m => origin[n] < origin[m]
    /\ \A n \in Appended : BuiltFrom(benchmarks[n][1], config[origin[n]])
    /\ pc \in {"for_entry", "for_header"}
           => /\ {origin[n] : n \in Appended} = 1..(i - 1)
              /\ Cardinality(Appended) = i - 1
    /\ (Idle /\ FetchEnded /\ result.status = "ok")
           => /\ {origin[n] : n \in Appended} = ValidEntries
              /\ Cardinality(Appended) = Cardinality(ValidEntries)

\* a completed fetch_metrics_ appended the records of two different entries
C18_Witness ==
    /\ Idle
    /\ FetchEnded
    /\ result.status = "ok"
    /\ Len(config) = 2
    /\ config[1] = EntryFull
    /\ config[2] = EntryNulls
    /\ Cardinality(Appended) = 2
    /\ \E n \in Appended :
           /\ origin[n] = 1
           /\ origin[n + 1] = 2
           /\ benchmarks[n][1]["Model"] = Str("resnet50")
           /\ benchmarks[n + 1][1]["Model"] = Str("")

----------------------------------------------------------------------------
(* C19 *)

\* C19: no backend call is issued for a header the entry gives a null; in
\* a stored pair a measurable header with a default key and an explicit
\* null holds '' and has no entry in the alarm index.
C19_NullOverridesDefault ==
    /\ \A c \in calls :
           c.header \in DOMAIN config[c.entry] => config[c.entry][c.header] # None
    /\ \A n \in DOMAIN benchmarks :
           LET e == config[origin[n]]
           IN  \A k \in DOMAIN e \cap DOMAIN DEFAULT_METRIC_KEYS \cap
                            SchemaHeaders(benchmarks[n][1]) :
                   e[k] = None
                       => /\ benchmarks[n][1][k] = Str("")
                          /\ k \notin DOMAIN benchmarks[n][2]
                          /\ n \in Appended => CallsFor(origin[n], k) = {}

\* a stored pair of an entry with Throughput: null, for which no call was
\* issued although other default keys were queried
C19_Witness ==
    \E n \in Appended :
        /\ "Throughput" \in DOMAIN config[origin[n]]
        /\ config[origin[n]]["Throughput"] = None
        /\ benchmarks[n][1]["Throughput"] = Str("")
        /\ "Throughput" \notin DOMAIN benchmarks[n][2]
        /\ CallsFor(origin[n], "Throughput") = {}
        /\ CallsFor(origin[n], "CPU Memory") # {}

====
